---- MODULE Spec2Model ----
(***************************************************************************)
(* Model of the todo backend (src/todo_backend/src/api/main.py): six route *)
(* handlers over one SQLite table.  Every request opens its own connection *)
(* (_db), so requests running in the server's thread pool interleave at    *)
(* the points where they touch the store: the first SELECT (autocommit,    *)
(* the sqlite3 module opens no transaction for a SELECT), the first        *)
(* INSERT/UPDATE/DELETE (implicit BEGIN, takes the store's write lock) and *)
(* the COMMIT on leaving the with-block.                                   *)
(***************************************************************************)
EXTENDS Integers, Sequences, FiniteSets, TLC

\* ---------------------------------------------------------------- bounds
MaxId == 2
MaxTime == 1

\* ------------------------------------------------------ program constants
MinTitleLen == 1
MaxTitleLen == 200
MinTaskId == 1

Workers == 2
Requests == 1..Workers
NoReq == 0

Max(S) == CHOOSE x \in S : \A y \in S : y <= x

\* ------------------------------------------------------------------ titles
\* A title is a sequence of characters; " " is the whitespace character.
Rep(n) == [i \in 1..n |-> "a"]

RECURSIVE LStrip(_)
LStrip(s) == IF s # <<>> /\ Head(s) = " " THEN LStrip(Tail(s)) ELSE s

RECURSIVE RStrip(_)
RStrip(s) ==
    IF s # <<>> /\ s[Len(s)] = " " THEN RStrip(SubSeq(s, 1, Len(s) - 1)) ELSE s

\* str.strip()
Strip(s) == RStrip(LStrip(s))

\* Titles a client may send: empty, whitespace only, padded, one too long.
Padded == <<" ", "a", " ">>
TitleInputs == { <<>>, <<" ">>, Padded, Rep(MaxTitleLen + 1) }

Times == 1..MaxTime
TaskIds == 0..MaxId

\* ------------------------------------------------------------- requests
Kinds == {"list", "create", "get", "update", "delete", "toggle"}

Op(kind, id, hasTitle, title, hasCompleted, completed) ==
    [kind |-> kind, id |-> id, hasTitle |-> hasTitle, title |-> title,
     hasCompleted |-> hasCompleted, completed |-> completed]

NoOp == Op("none", 0, FALSE, <<>>, FALSE, FALSE)

\* Request bodies: an absent field (or JSON null) is hasX = FALSE.
TaskCreateInputs == { Op("create", 0, TRUE, t, FALSE, FALSE) : t \in TitleInputs }

\* Updates: title only, completed only, both, neither; one with a bad id.
ValidIds == MinTaskId..MaxId

TaskUpdateInputs ==
    { Op("update", i, TRUE, t, FALSE, FALSE) : i \in ValidIds, t \in TitleInputs \ {<<>>} }
    \cup { Op("update", i, FALSE, <<>>, TRUE, c) : i \in ValidIds, c \in BOOLEAN }
    \cup { Op("update", i, TRUE, Padded, TRUE, TRUE) : i \in ValidIds }
    \cup { Op("update", i, FALSE, <<>>, FALSE, FALSE) : i \in ValidIds }
    \cup { Op("update", MinTaskId - 1, FALSE, <<>>, TRUE, TRUE) }

IdInputs(kind) == { Op(kind, i, FALSE, <<>>, FALSE, FALSE) : i \in TaskIds }

\* Field(min_length=1, max_length=200): checked on the string as sent.
TitleFieldOk(t) == Len(t) >= MinTitleLen /\ Len(t) <= MaxTitleLen

\* Path(..., ge=1)
PathIdOk(id) == id >= MinTaskId

\* Request validation done by the framework before the handler runs.
RequestValid(op) ==
    CASE op.kind = "list" -> TRUE
      [] op.kind = "create" -> op.hasTitle /\ TitleFieldOk(op.title)
      [] op.kind = "update" -> PathIdOk(op.id) /\ (op.hasTitle => TitleFieldOk(op.title))
      [] OTHER -> PathIdOk(op.id)

\* update_task: payload.title is None and payload.completed is None
NoFieldsProvidedTruthy(op) == FALSE
NoFieldsProvided(op) == ~op.hasTitle /\ ~op.hasCompleted

\* ---------------------------------------------------------------- store
\* The tasks table (a set of rows, id is the primary key) and the
\* sqlite_sequence counter kept for the AUTOINCREMENT column.
NoRow == [id |-> 0, title |-> <<>>, completed |-> 0, created_at |-> 0]

EmptyStore == [rows |-> {}, seq |-> 0]

RowIds(st) == { x.id : x \in st.rows }

\* INTEGER PRIMARY KEY AUTOINCREMENT: one more than the largest rowid the
\* table has ever held.
NextRowIdNoAutoincrement(st) == Max({0} \cup RowIds(st)) + 1
NextRowId(st) == Max({st.seq} \cup RowIds(st)) + 1

\* INSERT INTO tasks (title, completed, created_at) VALUES (?, ?, ?)
InsertTask(st, title, completed, now) ==
    LET id == NextRowId(st) IN
    [rows |-> st.rows \cup
              {[id |-> id, title |-> title, completed |-> completed, created_at |-> now]},
     seq |-> Max({st.seq, id})]

\* cur.lastrowid after the INSERT
LastRowId(st) == NextRowId(st)

\* UPDATE tasks SET title = ?, completed = ? WHERE id = ?
UpdateTitleCompleted(st, id, title, completed) ==
    [st EXCEPT !.rows =
        { IF x.id = id THEN [x EXCEPT !.title = title, !.completed = completed] ELSE x
          : x \in st.rows }]

\* UPDATE tasks SET completed = ? WHERE id = ?
UpdateCompleted(st, id, completed) ==
    [st EXCEPT !.rows =
        { IF x.id = id THEN [x EXCEPT !.completed = completed] ELSE x : x \in st.rows }]

\* DELETE FROM tasks WHERE id = ?
DeleteRowKeeps(st, id) == st
DeleteRow(st, id) == [st EXCEPT !.rows = { x \in st.rows : x.id # id }]

\* SELECT * FROM tasks ORDER BY id DESC
RECURSIVE OrderByIdDesc(_)
OrderByIdAsc(rows) ==
    IF rows = {} THEN <<>>
    ELSE LET m == CHOOSE x \in rows : \A y \in rows : x.id <= y.id
         IN <<m>> \o OrderByIdDesc(rows \ {m})
OrderByIdDesc(rows) ==
    IF rows = {} THEN <<>>
    ELSE LET m == CHOOSE x \in rows : \A y \in rows : y.id <= x.id
         IN <<m>> \o OrderByIdDesc(rows \ {m})

\* _row_to_task: completed is stored as 0/1 and returned as a boolean.
RowToTask(row) ==
    [id |-> row.id, title |-> row.title, completed |-> (row.completed # 0),
     created_at |-> row.created_at]

\* _fetch_task_or_404: SELECT * FROM tasks WHERE id = ?; None raises 404.
FetchTaskOr404(st, id) ==
    IF \E x \in st.rows : x.id = id
    THEN [found |-> TRUE, row |-> CHOOSE x \in st.rows : x.id = id]
    ELSE [found |-> FALSE, row |-> NoRow]

\* -------------------------------------------------------------- responses
Resp(status, body) == [status |-> status, body |-> body]
NoResp == Resp(0, <<>>)

NotFound == Resp(404, <<>>)


\* ------------------------------------------------- handlers, as functions
\* What a handler does from the request's arrival up to and including its
\* first SELECT, against the committed store st.  pc = "write" means the
\* handler goes on to an INSERT/UPDATE/DELETE; "done" means it has returned.
\* opened: a connection was opened; err: the with-block was left by an
\* exception (or never entered).
Began(pc, opened, err, resp, existing) ==
    [pc |-> pc, opened |-> opened, err |-> err, resp |-> resp, existing |-> existing]

\* list_tasks
ListTasksResult(st) ==
    LET rows == OrderByIdDesc(st.rows) IN
    Resp(200, [i \in 1..Len(rows) |-> RowToTask(rows[i])])

\* get_task
GetTaskResult(st, id) ==
    LET f == FetchTaskOr404(st, id) IN
    IF f.found THEN Resp(200, <<RowToTask(f.row)>>) ELSE NotFound

BeginResult(op, st) ==
    IF ~RequestValid(op) THEN Began("done", FALSE, TRUE, Resp(422, <<>>), NoRow)
    ELSE IF op.kind = "list" THEN Began("done", TRUE, FALSE, ListTasksResult(st), NoRow)
    ELSE IF op.kind = "create" THEN Began("write", TRUE, FALSE, NoResp, NoRow)
    ELSE IF op.kind = "update" /\ NoFieldsProvided(op)
         THEN Began("done", FALSE, TRUE, Resp(400, <<>>), NoRow)
    ELSE LET f == FetchTaskOr404(st, op.id) IN
         IF ~f.found THEN Began("done", TRUE, TRUE, NotFound, NoRow)
         ELSE IF op.kind = "get"
              THEN Began("done", TRUE, FALSE, GetTaskResult(st, op.id), NoRow)
              ELSE Began("write", TRUE, FALSE, NoResp, f.row)

\* The statements a handler runs once it holds the write lock, against the
\* store st as it is then; existing is the row its first SELECT returned.
Wrote(err, st, resp) == [err |-> err, st |-> st, resp |-> resp]

\* create_task: INSERT, then read the new row back.
CreateTaskWrite(st, op, now) ==
    LET st2 == InsertTask(st, Strip(op.title), 0, now)
        f == FetchTaskOr404(st2, LastRowId(st))
    IN IF f.found THEN Wrote(FALSE, st2, Resp(201, <<RowToTask(f.row)>>))
       ELSE Wrote(TRUE, st2, NotFound)

\* update_task: new_title / new_completed, UPDATE, read back.
NewTitleBlank(op, existing) == IF op.hasTitle THEN Strip(op.title) ELSE <<>>
NewTitle(op, existing) == IF op.hasTitle THEN Strip(op.title) ELSE existing.title

NewCompleted(op, existing) ==
    IF op.hasCompleted THEN (IF op.completed THEN 1 ELSE 0) ELSE existing.completed

UpdateTaskWrite(st, op, existing) ==
    LET st2 == UpdateTitleCompleted(st, op.id, NewTitle(op, existing),
                                    NewCompleted(op, existing))
        f == FetchTaskOr404(st2, op.id)
    IN IF f.found THEN Wrote(FALSE, st2, Resp(200, <<RowToTask(f.row)>>))
       ELSE Wrote(TRUE, st2, NotFound)

\* delete_task
DeleteTaskWrite(st, op) == Wrote(FALSE, DeleteRow(st, op.id), Resp(204, <<>>))

\* toggle_task_completion: 0 if int(existing["completed"]) == 1 else 1
ToggledAlwaysSet(existing) == 1
Toggled(existing) == IF existing.completed = 1 THEN 0 ELSE 1

ToggleTaskWrite(st, op, existing) ==
    LET st2 == UpdateCompleted(st, op.id, Toggled(existing))
        f == FetchTaskOr404(st2, op.id)
    IN IF f.found THEN Wrote(FALSE, st2, Resp(200, <<RowToTask(f.row)>>))
       ELSE Wrote(TRUE, st2, NotFound)

WriteResult(op, now, existing, st) ==
    CASE op.kind = "create" -> CreateTaskWrite(st, op, now)
      [] op.kind = "update" -> UpdateTaskWrite(st, op, existing)
      [] op.kind = "delete" -> DeleteTaskWrite(st, op)
      [] OTHER -> ToggleTaskWrite(st, op, existing)

\* _db: leaving the with-block commits unless an exception is passing
\* through, and closes the connection in either case.
DbCommitsAlways(err) == TRUE
DbCommits(err) == ~err

DbClosesOnSuccess(err) == ~err
DbCloses(err) == TRUE

\* A handler run from start to end with no other request in between.
Serial(op, now, st) ==
    LET b == BeginResult(op, st) IN
    IF b.pc = "done" THEN [st |-> st, resp |-> b.resp]
    ELSE LET w == WriteResult(op, now, b.existing, st) IN
         IF w.err THEN [st |-> st, resp |-> w.resp]
         ELSE [st |-> w.st, resp |-> w.resp]


\* ------------------------------------------------------------------ state
VARIABLES
    store,    \* the committed database: [rows, seq]
    work,     \* the database as the connection holding the write lock sees it
    lock,     \* the request whose connection holds the write lock, or NoReq
    req,      \* per worker thread: the request it is serving, if any
    out,      \* the response sent by the latest step, with its request; or NoOut
    issued,   \* history: the ids returned by successful creates, in order
    deleted,  \* history: the ids whose delete returned 204
    topgone,  \* history: a create followed the delete of the highest id
    tg        \* history: a pair of successive toggles of one task

vars == <<store, work, lock, req, out, issued, deleted, topgone, tg>>

NoPeer == [state |-> "none", op |-> NoOp, resp |-> NoResp]
Tainted == [state |-> "many", op |-> NoOp, resp |-> NoResp]

Idle ==
    [pc |-> "idle", op |-> NoOp, now |-> 0, existing |-> NoRow, resp |-> NoResp,
     conn |-> "none", seen |-> "none", peer |-> NoPeer]

NoOut ==
    [op |-> NoOp, resp |-> NoResp, conn |-> "none", commits |-> 0,
     seen |-> "none", existing |-> NoRow, peer |-> NoPeer]

NoTg == [stage |-> 0, id |-> 0, orig |-> NoRow, slot |-> NoReq]

Init ==
    /\ store = EmptyStore
    /\ work = EmptyStore
    /\ lock = NoReq
    /\ req = [r \in Requests |-> Idle]
    /\ out = NoOut
    /\ issued = <<>>
    /\ deleted = {}
    /\ topgone = FALSE
    /\ tg = NoTg

InFlight(r) == req[r].pc # "idle"

TargetKinds == {"get", "update", "delete", "toggle"}
Targets(op, i) == op.kind \in TargetKinds /\ op.id = i

WriteKinds == {"update", "delete", "toggle"}

Range(f) == { f[i] : i \in DOMAIN f }

\* What the history knows of an id when a request for it arrives.
Seen(id) ==
    IF id \in deleted THEN "deleted"
    ELSE IF id \in Range(issued) THEN "live" ELSE "never"

\* Inserts begun and not yet committed.
CreatesInFlight == Cardinality({ q \in Requests : req[q].op.kind = "create" })

\* The toggle pair: a finished pair is forgotten at the next step.
TgKept == IF tg.stage = 4 THEN NoTg ELSE tg

\* The toggle pair after a request op arrives at worker r and begins as b.
TgOnBegin(r, op, b) ==
    IF TgKept.stage # 0 /\ Targets(op, TgKept.id)
    THEN IF TgKept.stage = 2 /\ op.kind = "toggle" /\ b.pc = "write"
         THEN [TgKept EXCEPT !.stage = 3, !.slot = r]
         ELSE NoTg
    ELSE IF /\ TgKept.stage = 0
            /\ op.kind = "toggle"
            /\ b.pc = "write"
            /\ \A q \in Requests \ {r} : ~(InFlight(q) /\ Targets(req[q].op, op.id))
         THEN [stage |-> 1, id |-> op.id, orig |-> b.existing, slot |-> r]
         ELSE TgKept

\* The toggle pair after worker r's request ends.
TgOnEnd(r, err) ==
    IF TgKept.slot # r THEN TgKept
    ELSE IF err THEN NoTg
    ELSE IF TgKept.stage = 1 THEN [TgKept EXCEPT !.stage = 2, !.slot = NoReq]
    ELSE [TgKept EXCEPT !.stage = 4]

\* What worker q, in flight, records when worker r's request ends with
\* resp: the one update, toggle or delete of the same task that read the same
\* row as q and ended while q was in flight.
PeerOnEnd(q, r, resp) ==
    IF /\ req[q].op.kind \in WriteKinds
       /\ req[r].op.kind \in WriteKinds
       /\ req[q].op.id = req[r].op.id
    THEN IF /\ req[q].peer = NoPeer
            /\ req[r].peer = NoPeer
            /\ req[q].existing = req[r].existing
         THEN [state |-> "one", op |-> req[r].op, resp |-> resp]
         ELSE Tainted
    ELSE req[q].peer

\* The pool's workers are interchangeable; a request goes to the first idle
\* one.
FirstIdle ==
    IF \E q \in Requests : req[q].pc = "idle"
    THEN CHOOSE q \in Requests :
            req[q].pc = "idle" /\ \A p \in Requests : req[p].pc = "idle" => q <= p
    ELSE NoReq

\* A request arrives at an idle worker: validation, _get_connection and the
\* handler up to and including its first SELECT.  A handler that runs no
\* INSERT/UPDATE/DELETE leaves the with-block and returns in the same step.
Begin(r, op, now) ==
    /\ out = NoOut
    /\ r = FirstIdle
    /\ LET b == BeginResult(op, store)
           seen == IF op.kind \in TargetKinds THEN Seen(op.id) ELSE "none"
       IN /\ IF b.pc = "done"
             THEN /\ req' = req
                  /\ out' = [op |-> op, resp |-> b.resp,
                             conn |-> IF ~b.opened THEN "none"
                                      ELSE IF DbCloses(b.err) THEN "closed" ELSE "open",
                             commits |-> IF b.opened /\ DbCommits(b.err) THEN 1 ELSE 0,
                             seen |-> seen, existing |-> NoRow, peer |-> NoPeer]
             ELSE /\ req' = [req EXCEPT ![r] =
                        [pc |-> "write", op |-> op, now |-> now,
                         existing |-> b.existing, resp |-> NoResp, conn |-> "open",
                         seen |-> seen, peer |-> NoPeer]]
                  /\ out' = NoOut
          /\ tg' = TgOnBegin(r, op, b)
    /\ UNCHANGED <<store, work, lock, issued, deleted, topgone>>

list_tasks(r) == \E op \in IdInputs("list") : op.id = 0 /\ Begin(r, op, 0)

get_task(r) == \E op \in IdInputs("get") : Begin(r, op, 0)

\* now = datetime.utcnow().isoformat(); rowids are capped at MaxId.
create_task(r) ==
    /\ store.seq + CreatesInFlight < MaxId
    /\ \E op \in TaskCreateInputs, now \in Times : Begin(r, op, now)

update_task(r) == \E op \in TaskUpdateInputs : Begin(r, op, 0)

delete_task(r) == \E op \in IdInputs("delete") : Begin(r, op, 0)

toggle_task_completion(r) == \E op \in IdInputs("toggle") : Begin(r, op, 0)

\* The handler leaves the with-block, by an exception (err) or normally, and
\* the response resp is sent: _db commits unless err, and closes.
End(r, err, resp) ==
    /\ out' = [op |-> req[r].op, resp |-> resp,
               conn |-> IF DbCloses(err) THEN "closed" ELSE "open",
               commits |-> IF DbCommits(err) THEN 1 ELSE 0,
               seen |-> req[r].seen, existing |-> req[r].existing,
               peer |-> req[r].peer]
    /\ req' = [q \in Requests |->
                 IF q = r THEN Idle
                 ELSE IF InFlight(q) THEN [req[q] EXCEPT !.peer = PeerOnEnd(q, r, resp)]
                 ELSE req[q]]
    /\ store' = IF lock = r /\ DbCommits(err) THEN work ELSE store
    /\ lock' = IF lock = r /\ (DbCommits(err) \/ DbCloses(err)) THEN NoReq ELSE lock
    /\ work' = IF lock' = NoReq THEN store' ELSE work
    /\ issued' = IF req[r].op.kind = "create" /\ ~err
                 THEN Append(issued, resp.body[1].id) ELSE issued
    /\ deleted' = IF req[r].op.kind = "delete" /\ ~err
                  THEN deleted \cup {req[r].op.id} ELSE deleted
    /\ topgone' = IF req[r].op.kind = "create" /\ ~err /\ issued # <<>>
                  THEN topgone \/ Max(Range(issued)) \in deleted ELSE topgone
    /\ tg' = TgOnEnd(r, err)

\* The handler's first INSERT/UPDATE/DELETE: the implicit BEGIN takes the
\* write lock, the statement and the read-back run inside the transaction.
\* A read-back that finds no row raises 404 out of the with-block.
Write(r) ==
    /\ out = NoOut
    /\ req[r].pc = "write"
    /\ lock = NoReq
    /\ LET w == WriteResult(req[r].op, req[r].now, req[r].existing, store) IN
       IF w.err
       THEN End(r, TRUE, w.resp)
       ELSE /\ req' = [req EXCEPT ![r].pc = "commit", ![r].resp = w.resp]
            /\ work' = w.st
            /\ lock' = r
            /\ out' = NoOut
            /\ tg' = TgKept
            /\ UNCHANGED <<store, issued, deleted, topgone>>

\* The write lock is held by another connection for longer than the busy
\* timeout: the statement raises sqlite3.OperationalError.
Busy(r) ==
    /\ out = NoOut
    /\ req[r].pc = "write"
    /\ lock \notin {NoReq, r}
    /\ End(r, TRUE, Resp(500, <<>>))

\* Leaving the with-block normally: conn.commit(), conn.close(), return.
Commit(r) ==
    /\ out = NoOut
    /\ req[r].pc = "commit"
    /\ End(r, FALSE, req[r].resp)

\* The response leaves the server before the next step.
Sent ==
    /\ out # NoOut
    /\ out' = NoOut
    /\ tg' = TgKept
    /\ UNCHANGED <<store, work, lock, req, issued, deleted, topgone>>

\* No request is being served.
Quiet == \A q \in Requests : req[q].pc = "idle"

\* Requests served one at a time, each handler running from start to end.
Next ==
    \/ Sent
    \/ \E r \in Requests :
        \/ (Quiet /\ list_tasks(r))
        \/ (Quiet /\ get_task(r))
        \/ (Quiet /\ create_task(r))
        \/ (Quiet /\ update_task(r))
        \/ (Quiet /\ delete_task(r))
        \/ (Quiet /\ toggle_task_completion(r))
        \/ Write(r)
        \/ Commit(r)

Spec == Init /\ [][Next]_vars

\* Requests served by the pool's workers at once, interleaved at the points
\* where they touch the store.
NextConc ==
    \/ Sent
    \/ \E r \in Requests :
        \/ list_tasks(r)
        \/ get_task(r)
        \/ create_task(r)
        \/ update_task(r)
        \/ delete_task(r)
        \/ toggle_task_completion(r)
        \/ Write(r)
        \/ Busy(r)
        \/ Commit(r)

SpecConc == Init /\ [][NextConc]_vars


\* ---------------------------------------------------------------- claims
IsBlank(t) == Strip(t) = <<>>

\* The step in which worker r's request commits and returns.
Commits(r, kind) ==
    /\ req[r].pc = "commit"
    /\ req'[r].pc = "idle"
    /\ req[r].op.kind = kind

\* The stored row with id i, in a store that has one.
RowOf(st, i) == CHOOSE x \in st.rows : x.id = i

\* C1: a create whose title is empty or only whitespace fails validation
\* (422), and the step that answers it leaves the store as it was.
C1_BlankCreateRejected ==
    [][(out' # NoOut /\ out'.op.kind = "create" /\ IsBlank(out'.op.title))
          => (out'.resp.status = 422 /\ store' = store)]_vars

\* C2: every stored title is non-empty, at most 200 characters long and
\* equal to its own trimmed form.
C2_StoredTitlesValid ==
    \A x \in store.rows :
        /\ Len(x.title) >= MinTitleLen
        /\ Len(x.title) <= MaxTitleLen
        /\ Strip(x.title) = x.title

\* C3: when two update/toggle/delete requests on one task run concurrently
\* (both read the same row, nothing else touched the task meanwhile, neither
\* met a store error), the task's final row and both responses are those of
\* one of the two serial orders of the two requests.  Only well-formed
\* titles are considered, so that blank titles play no part.
SerialPair(first, second, mini) ==
    LET s1 == Serial(first.op, 0, mini)
        s2 == Serial(second.op, 0, s1.st)
    IN /\ s1.resp = first.resp
       /\ s2.resp = second.resp
       /\ FetchTaskOr404(s2.st, second.op.id) = FetchTaskOr404(store, second.op.id)

NoBlankTitle(op) == op.hasTitle => ~IsBlank(op.title)

C3_ConcurrentPairSerializable ==
    (/\ out.peer.state = "one"
     /\ out.resp.status # 500
     /\ out.peer.resp.status # 500
     /\ ~IsBlank(out.existing.title)
     /\ NoBlankTitle(out.op)
     /\ NoBlankTitle(out.peer.op))
        => LET mini == [rows |-> {out.existing}, seq |-> out.existing.id]
               mine == [op |-> out.op, resp |-> out.resp]
               other == [op |-> out.peer.op, resp |-> out.peer.resp]
           IN SerialPair(other, mine, mini) \/ SerialPair(mine, other, mini)

\* C4: a successful update of an existing task leaves every field it was not
\* given as it was: title when only completed is supplied, completed when
\* only title is supplied, id and created_at always, and every other row.
C4_UpdateChangesOnlySupplied ==
    [][\A r \in Requests :
          (Commits(r, "update") /\ req[r].existing \in store.rows)
             => LET op == req[r].op
                    e == req[r].existing
                IN /\ out'.resp.status = 200
                   /\ \E n \in store'.rows :
                         /\ n.id = op.id
                         /\ n.id = e.id
                         /\ n.created_at = e.created_at
                         /\ (~op.hasTitle => n.title = e.title)
                         /\ (~op.hasCompleted => n.completed = e.completed)
                         /\ store'.rows \ {n} = store.rows \ {e}
                         /\ out'.resp.body = <<RowToTask(n)>>]_vars

C4_Witness ==
    /\ out.op.kind = "update"
    /\ out.resp.status = 200
    /\ ~out.op.hasTitle
    /\ out.op.hasCompleted
    /\ out.existing.completed = 0
    /\ out.resp.body[1].completed
    /\ out.resp.body[1].title = <<"a">>
    /\ Cardinality(store.rows) = 2

\* C5: a toggle of an existing task returns it with completed negated and
\* nothing else changed, and the second of two successive toggles of a task,
\* no other request on that task in between, returns and stores the task as
\* it was before the first.
C5_ToggleNegatesTwiceRestores ==
    [][/\ \A r \in Requests :
            (Commits(r, "toggle") /\ req[r].existing \in store.rows)
               => LET e == req[r].existing
                      n == [e EXCEPT !.completed = IF e.completed = 0 THEN 1 ELSE 0]
                  IN /\ store'.rows = (store.rows \ {e}) \cup {n}
                     /\ out'.resp = Resp(200, <<RowToTask(n)>>)
                     /\ out'.resp.body[1].completed = ~RowToTask(e).completed
       /\ tg'.stage = 4
             => /\ tg'.orig \in store'.rows
                /\ out'.op.kind = "toggle"
                /\ out'.resp = Resp(200, <<RowToTask(tg'.orig)>>)]_vars

C5_Witness ==
    /\ tg.stage = 4
    /\ out.op.kind = "toggle"
    /\ out.resp.status = 200
    /\ out.resp.body[1].completed

\* C6: an update that supplies neither title nor completed is answered 400
\* at once, whether or not the task exists, and the store is left as it was.
EmptyUpdate(op) ==
    op.kind = "update" /\ ~op.hasTitle /\ ~op.hasCompleted /\ PathIdOk(op.id)

C6_EmptyUpdateRejected ==
    [][/\ \A r \in Requests : ~EmptyUpdate(req'[r].op)
       /\ (out' # NoOut /\ EmptyUpdate(out'.op))
             => (out'.resp.status = 400 /\ store' = store /\ work' = work
                   /\ out'.commits = 0)]_vars

C6_Witness ==
    /\ EmptyUpdate(out.op)
    /\ out.resp.status = 400
    /\ \E x \in store.rows : x.id = out.op.id
    /\ \E i \in ValidIds : i \notin RowIds(store)

\* C7: the ids returned by successive successful creates are strictly
\* increasing, so none is assigned twice, also after deletes.
C7_CreatedIdsIncrease ==
    \A i, j \in DOMAIN issued : i < j => issued[i] < issued[j]

C7_Witness ==
    /\ topgone
    /\ Len(issued) = 2
    /\ out.op.kind = "create"
    /\ out.resp.status = 201

\* C8: a list returns every stored task exactly once and no deleted one, in
\* strictly descending id order, which is newest-created first.
Position(id) == CHOOSE i \in DOMAIN issued : issued[i] = id

C8_ListAllDescending ==
    (out.op.kind = "list")
        => LET body == out.resp.body IN
           /\ out.resp.status = 200
           /\ Len(body) = Cardinality(store.rows)
           /\ { body[i] : i \in DOMAIN body } = { RowToTask(x) : x \in store.rows }
           /\ \A i, j \in DOMAIN body : i < j => body[i].id > body[j].id
           /\ \A i \in DOMAIN body : body[i].id \notin deleted
           /\ \A i, j \in DOMAIN body :
                 i < j => Position(body[i].id) > Position(body[j].id)

C8_Witness ==
    /\ out.op.kind = "list"
    /\ Len(out.resp.body) = 2

\* C9: a get of an id never created or already deleted returns 404, a get of
\* an id created and not deleted returns that task, and once a delete of an
\* id has succeeded every later well-formed get, update, toggle or delete of
\* it returns 404.
WellFormed(op) == RequestValid(op) /\ ~(op.kind = "update" /\ NoFieldsProvided(op))

C10_ClosedAndNoCommitOnError ==
    [][(out' # NoOut)
          => /\ out'.conn # "open"
             /\ lock' = NoReq \/ (\E q \in Requests : lock' = q /\ req'[q].pc = "commit")
             /\ (out'.resp.status >= 400)
                   => (out'.commits = 0 /\ store' = store)]_vars

C10_Witness ==
    /\ out.resp.status = 404
    /\ out.existing # NoRow
    /\ out.conn = "closed"

====
